---- MODULE Spec2Model ----
(***************************************************************************)
(* Model of the arena allocator and the dynamic array of core.h (and of    *)
(* the places where the nexus revision differs).  size_t and uintptr_t are *)
(* modelled as SizeBits-wide unsigned integers: every C expression on them *)
(* is reduced modulo SizeMod exactly where the C code computes it.         *)
(***************************************************************************)
EXTENDS Integers, Sequences, FiniteSets, TLC

\* ---------------------------------------------------------------- bounds
SizeBits == 10          \* width of size_t / uintptr_t in the model
MaxOps == 4             \* operations applied to the arena after creation
MaxScopes == 2          \* nesting depth of open arena scopes
MaxDynOps == 2          \* operations applied to the array after its filling

\* ------------------------------------------------------ program constants
NULL == 0
SIZEOF_ARENA_T == 64    \* sizeof(arena_t), LP64: 4+4 words
SIZEOF_VOID_P == 8      \* sizeof(void*), LP64

_DYN_ARR_INITIAL_SIZE == 8
SIZEOF_DYN_ARR_HEADER_T == 56   \* sizeof(_dyn_arr_header_t), LP64: 4+3 words
DynArenaCapacity == 512 \* capacity of the arena that backs an array
ElementSize == 4        \* element_size the array is created with

SizeMod == 2^SizeBits
Wrap(x) == x % SizeMod

\* inputs
Capacities == {16, 96}
HeapBase == 256         \* address of a block of the backing allocator
BufferBase == 264       \* address of a caller's buffer: 8- but not 16-aligned
Sizes == {1, 8, SizeMod - 8}
Aligns == {0, 1, 3, 16}

RECURSIVE BitAndN(_, _, _)
BitAndN(a, b, n) ==
    IF n = 0 THEN 0
    ELSE (a % 2) * (b % 2) + 2 * BitAndN(a \div 2, b \div 2, n - 1)

\* the C operator & on two size_t values
BitAnd(a, b) == BitAndN(a, b, SizeBits)

VARIABLES arena, scopes, live, fresh, last, halt, ops, arr, ref, dlast

vars == <<arena, scopes, live, fresh, last, halt, ops, arr, ref, dlast>>

avars == <<scopes, live, fresh, last>>    \* arena bookkeeping
dvars == <<arr, ref, dlast>>              \* the dynamic array

\* ------------------------------------------------------------ arena, pure
_is_power_of_two(value) == BitAnd(value, Wrap(value - 1)) = 0

\* the value _align_up returns when its assertion passes
_align_up(value, align) ==
    LET mod == BitAnd(value, Wrap(align - 1))
    IN  IF mod # 0 THEN Wrap(value + Wrap(align - mod)) ELSE value

\* arena_push_aligned refusing a request that fits exactly (>= for >)
arena_push_aligned_exact_fit_refused(a, size, align) ==
    LET current_ptr == Wrap(a.memory + a.position)
        aligned_ptr == _align_up(current_ptr, align)
        position == Wrap(aligned_ptr - a.memory)
    IN  IF ~_is_power_of_two(align)
        THEN [halt |-> "trap", arena |-> a, ret |-> NULL]
        ELSE IF Wrap(position + size) >= a.capacity
        THEN [halt |-> "run", arena |-> a, ret |-> NULL]
        ELSE [halt |-> "run",
              arena |-> [a EXCEPT !.last_position = position,
                                  !.position = Wrap(position + size)],
              ret |-> Wrap(a.memory + position)]

\* result of arena_push_aligned on arena a: the arena afterwards, the
\* returned pointer and whether the assertion of _align_up stopped the run
arena_push_aligned(a, size, align) ==
    LET current_ptr == Wrap(a.memory + a.position)
        aligned_ptr == _align_up(current_ptr, align)
        position == Wrap(aligned_ptr - a.memory)
    IN  IF ~_is_power_of_two(align)
        THEN [halt |-> "trap", arena |-> a, ret |-> NULL]
        ELSE IF Wrap(position + size) > a.capacity
        THEN [halt |-> "run", arena |-> a, ret |-> NULL]
        ELSE [halt |-> "run",
              arena |-> [a EXCEPT !.last_position = position,
                                  !.position = Wrap(position + size)],
              ret |-> Wrap(a.memory + position)]

arena_push(a, size) == arena_push_aligned(a, size, SIZEOF_VOID_P)

\* result of the adapter's reallocate
_arena_realloc(a, ptr, old_size, new_size) ==
    IF old_size >= new_size
    THEN [halt |-> "run", arena |-> a, ret |-> ptr]
    ELSE LET a1 == IF Wrap(a.memory + a.last_position) = ptr
                   THEN [a EXCEPT !.position = a.last_position]
                   ELSE a
             r == arena_push(a1, new_size)
         IN  IF r.ret = NULL /\ old_size > 0
             THEN [halt |-> "segv", arena |-> r.arena, ret |-> NULL]
             ELSE r

arena_reset(a) ==
    [a EXCEPT !.position = SIZEOF_ARENA_T, !.last_position = SIZEOF_ARENA_T]

arena_scope_begin(a) ==
    [position |-> a.position, last_position |-> a.last_position]

\* arena_scope_end that forgets to restore last_position
arena_scope_end_position_only(a, scope) ==
    [a EXCEPT !.position = scope.position]

arena_scope_end(a, scope) ==
    [a EXCEPT !.position = scope.position,
              !.last_position = scope.last_position]

\* ------------------------------------------------- dynamic array, pure
Min(a, b) == IF a < b THEN a ELSE b

\* what a byte range nobody wrote may hold, element by element
Garbage == {0, 170}

\* the array as the header and the storage hold it: allocator, element_size,
\* capacity and length are the header's fields, data the elements in slots
\* [0, length), ptr the header's address, block_size the byte size last
\* passed to the allocator for the block, alive whether the handle is set
NoArr == [alive |-> FALSE, allocator |-> "none", element_size |-> 0,
          capacity |-> 0, length |-> 0, data |-> <<>>, ptr |-> NULL,
          block_size |-> 0]

Outcome(d, a, h, out) == [arr |-> d, arena |-> a, halt |-> h, out |-> out]

\* dyn_arr_create, given the block core_alloc returned
dyn_arr_create(allocator, element_size, header) ==
    [alive |-> TRUE, allocator |-> allocator, element_size |-> element_size,
     capacity |-> _DYN_ARR_INITIAL_SIZE, length |-> 0, data |-> <<>>,
     ptr |-> header,
     block_size |-> Wrap(SIZEOF_DYN_ARR_HEADER_T
                         + Wrap(element_size * _DYN_ARR_INITIAL_SIZE))]

dyn_arr_length(d) == IF ~d.alive THEN 0 ELSE d.length

\* the contents a reallocated block may have: the first kept elements are
\* the old ones; the later ones are the old ones too (the allocator copied
\* more than it had to) or what the new bytes held
Reallocated(data, kept) ==
    {data} \cup {[i \in 1..Len(data) |-> IF i <= kept THEN data[i] ELSE g] :
                 g \in Garbage}

\* core_realloc of the array's block, from old_size to new_size bytes: a
\* heap allocator keeps the first min(old_size, new_size) bytes, the arena
\* adapter is _arena_realloc (in place, moved with old_size bytes copied, or
\* a copy to the null pointer when the arena is full)
core_realloc(d, a, old_size, new_size) ==
    LET kept == (Min(old_size, new_size) - SIZEOF_DYN_ARR_HEADER_T)
                    \div d.element_size
    IN  IF d.allocator = "heap"
        THEN {Outcome([d EXCEPT !.data = x, !.block_size = new_size],
                      a, "run", <<>>) : x \in Reallocated(d.data, kept)}
        ELSE LET r == _arena_realloc(a, d.ptr, old_size, new_size)
             IN  IF r.halt # "run" \/ r.ret = NULL
                 THEN {Outcome(d, r.arena, "segv", <<>>)}
                 ELSE IF r.ret = d.ptr
                 THEN {Outcome([d EXCEPT !.block_size = new_size],
                               r.arena, "run", <<>>)}
                 ELSE {Outcome([d EXCEPT !.data = x, !.ptr = r.ret,
                                         !.block_size = new_size],
                               r.arena, "run", <<>>) :
                       x \in Reallocated(d.data, kept)}

\* the while loop of _dyn_arr_ensure_capacity: the capacity it exits with.
\* A capacity that has wrapped around to 0 doubles to 0 and stays below
\* want for good: the loop never exits, which the result 0 stands for.
RECURSIVE Doubled(_, _)
Doubled(new_capacity, want) ==
    IF new_capacity < want
    THEN IF new_capacity = 0 THEN 0
         ELSE Doubled(Wrap(new_capacity * 2), want)
    ELSE new_capacity

\* the while loop never exits
LoopsForever(capacity, want) == Doubled(capacity, want) < want

\* _dyn_arr_ensure_capacity: the header's capacity field is read, never
\* written
_dyn_arr_ensure_capacity(d, a, length) ==
    IF d.capacity >= Wrap(d.length + length)
    THEN {Outcome(d, a, "run", <<>>)}
    ELSE IF LoopsForever(d.capacity, Wrap(d.length + length))
    THEN {Outcome(d, a, "hang", <<>>)}
    ELSE LET prev_capacity == d.capacity
             new_capacity == Doubled(d.capacity, Wrap(d.length + length))
         IN  core_realloc(d, a,
                 Wrap(SIZEOF_DYN_ARR_HEADER_T
                      + Wrap(prev_capacity * d.element_size)),
                 Wrap(SIZEOF_DYN_ARR_HEADER_T
                      + Wrap(new_capacity * d.element_size)))

Trap(d, a) == {Outcome(d, a, "trap", <<>>)}

\* an argument array: absent (NULL) or the elements at it
Absent == [null |-> TRUE, at |-> <<>>]
Present(items) == [null |-> FALSE, at |-> items]

Zeros(n) == [i \in 1..n |-> 0]

\* the copy or the zero fill of arr_length elements at slot index runs
\* past the end of the array's block
FillOverruns(h, index, arr_length) ==
    SIZEOF_DYN_ARR_HEADER_T + index * h.element_size
        + Wrap(arr_length * h.element_size) > h.block_size

dyn_arr_insert_arr(d, a, index, items, arr_length) ==
    IF ~(index <= d.length) THEN Trap(d, a)
    ELSE {IF o.halt # "run" THEN o
          ELSE IF FillOverruns(o.arr, index, arr_length)
          THEN Outcome(o.arr, o.arena, "segv", <<>>)
          ELSE LET h == o.arr
                   gap == IF items.null THEN Zeros(arr_length) ELSE items.at
               IN  Outcome([h EXCEPT
                       !.data = SubSeq(h.data, 1, index) \o gap
                                \o SubSeq(h.data, index + 1, Len(h.data)),
                       !.length = Wrap(h.length + arr_length)],
                     o.arena, "run", <<>>) :
          o \in _dyn_arr_ensure_capacity(d, a, arr_length)}

dyn_arr_remove_arr(d, a, index, count) ==
    IF ~(index < d.length) THEN Trap(d, a)
    ELSE IF ~(Wrap(index + count) <= d.length) THEN Trap(d, a)
    ELSE IF index + count > d.length
    \* index + count wrapped to an end below index: with an output the copy
    \* out runs over count elements; without one the elements from end on
    \* are moved up to index and the length grows by index - end
    THEN LET end == Wrap(index + count)
         IN  {Outcome(d, a, "segv", <<>>),
              Outcome([d EXCEPT
                          !.data = SubSeq(d.data, 1, index)
                                   \o SubSeq(d.data, end + 1, Len(d.data)),
                          !.length = Wrap(d.length - count)],
                      a, "run", <<>>)}
    ELSE {Outcome([d EXCEPT
              !.data = SubSeq(d.data, 1, index)
                       \o SubSeq(d.data, index + count + 1, Len(d.data)),
              !.length = Wrap(d.length - count)],
            a, "run", SubSeq(d.data, index + 1, index + count))}

dyn_arr_insert(d, a, index, value) ==
    dyn_arr_insert_arr(d, a, index, Present(<<value>>), 1)

dyn_arr_remove(d, a, index) == dyn_arr_remove_arr(d, a, index, 1)

dyn_arr_insert_fast(d, a, index, value) ==
    IF ~(index <= d.length) THEN Trap(d, a)
    ELSE {IF o.halt # "run" THEN o
          ELSE LET h == o.arr
               IN  Outcome([h EXCEPT
                       !.data = IF index = h.length
                                THEN Append(h.data, value)
                                ELSE Append([h.data EXCEPT ![index + 1] = value],
                                            h.data[index + 1]),
                       !.length = Wrap(h.length + 1)],
                     o.arena, "run", <<>>) :
          o \in _dyn_arr_ensure_capacity(d, a, 1)}

\* a removal that closes the gap by shifting instead of moving the last
\* element into it
dyn_arr_remove_fast_shifting(d, a, index) ==
    dyn_arr_remove_arr(d, a, index, 1)

dyn_arr_remove_fast(d, a, index) ==
    IF ~(index < d.length) THEN Trap(d, a)
    ELSE {Outcome([d EXCEPT
              !.data = SubSeq([d.data EXCEPT ![index + 1] = d.data[d.length]],
                              1, d.length - 1),
              !.length = Wrap(d.length - 1)],
            a, "run", <<d.data[index + 1]>>)}

dyn_arr_push(d, a, value) ==
    {IF o.halt # "run" THEN o
     ELSE Outcome([o.arr EXCEPT !.data = Append(o.arr.data, value),
                                !.length = Wrap(o.arr.length + 1)],
                  o.arena, "run", <<>>) :
     o \in _dyn_arr_ensure_capacity(d, a, 1)}

dyn_arr_pop(d, a) ==
    IF ~(d.length > 0) THEN Trap(d, a)
    ELSE {Outcome([d EXCEPT !.data = SubSeq(d.data, 1, d.length - 1),
                            !.length = Wrap(d.length - 1)],
                  a, "run", <<d.data[d.length]>>)}

dyn_arr_push_arr(d, a, items, arr_length) ==
    dyn_arr_insert_arr(d, a, dyn_arr_length(d), items, arr_length)

dyn_arr_pop_arr(d, a, count) ==
    IF ~(count <= dyn_arr_length(d)) THEN Trap(d, a)
    ELSE dyn_arr_remove_arr(d, a, Wrap(dyn_arr_length(d) - count), count)

dyn_arr_clear(d, a) ==
    {Outcome([d EXCEPT !.length = 0, !.data = <<>>], a, "run", <<>>)}

\* the size dyn_arr_destroy passes to core_free
DestroySize(d) ==
    Wrap(SIZEOF_DYN_ARR_HEADER_T
         + Wrap(d.element_size * _DYN_ARR_INITIAL_SIZE))

dyn_arr_destroy(d, a) ==
    {Outcome([d EXCEPT !.alive = FALSE], a, "run", <<>>)}

\* ------------------------------------------------------------------ state
\* last: the operation applied last, its arguments and result, the arena's
\* watermarks before it (pre), for arena_scope_end the watermarks the
\* arena had when the scope it ends was begun (begin), the allocator the
\* arena held when the operation was called (allocator) and the member of
\* it the operation called (call, "none" when it called none)
NoMarks == [position |-> 0, last_position |-> 0]

Marks(a) == [position |-> a.position, last_position |-> a.last_position]

NoOp == [op |-> "create", size |-> 0, align |-> 0, ptr |-> NULL,
         old_size |-> 0, ret |-> NULL, pre |-> NoMarks, begin |-> NoMarks,
         allocator |-> "none", call |-> "none"]

Rec(op, size, align, ptr, old_size, ret) ==
    [op |-> op, size |-> size, align |-> align, ptr |-> ptr,
     old_size |-> old_size, ret |-> ret,
     pre |-> Marks(arena), begin |-> NoMarks,
     allocator |-> arena.allocator, call |-> "none"]

\* dlast: the array operation applied last, its arguments, what it wrote to
\* its output, the array before it (pre) and the size it passed to the
\* allocator's deallocate (free_size, 0 when it made no such call)
\* prev: the operation applied before the last one, with its arguments and
\* the array before it
NoPrev == [op |-> "create", index |-> 0, count |-> 0, items |-> Absent,
           pre |-> NoArr]

NoDynOp == [op |-> "create", index |-> 0, count |-> 0, items |-> Absent,
            out |-> <<>>, pre |-> NoArr, free_size |-> 0, prev |-> NoPrev]

DynRec(op, index, count, items, out) ==
    [op |-> op, index |-> index, count |-> count, items |-> items,
     out |-> out, pre |-> arr, free_size |-> 0,
     prev |-> [op |-> dlast.op, index |-> dlast.index,
               count |-> dlast.count, items |-> dlast.items,
               pre |-> dlast.pre]]

\* ref: the reference stack run beside the array while only pushes and pops
\* are applied to it (on), and the value its last pop gave (top)
NoRef == [on |-> FALSE, stack |-> <<>>, top |-> 0]

\* the block a successful push handed out
Block(a, r, size) == [off |-> r.arena.last_position, size |-> size]

\* no arena: the array is backed by a heap allocator
NoArena == [allocator |-> "none", memory |-> NULL, capacity |-> 0,
            position |-> 0, last_position |-> 0]

\* arena_create, given the block the allocator returned for capacity bytes
arena_create(memory, capacity) ==
    [allocator |-> "heap", memory |-> memory, capacity |-> capacity,
     position |-> SIZEOF_ARENA_T, last_position |-> SIZEOF_ARENA_T]

arena_create_from_buffer(buffer, capacity) ==
    [allocator |-> "none", memory |-> buffer, capacity |-> capacity,
     position |-> SIZEOF_ARENA_T, last_position |-> SIZEOF_ARENA_T]

\* arena_destroy: core_free through the arena's allocator, whatever it is.
\* The allocator of a from-buffer arena is all zero: the call goes through
\* a null function pointer, and crashes or falls through.
arena_destroy(a) ==
    {[arena |-> NoArena, halt |-> h, call |-> "free"] :
        h \in IF a.allocator = "none" THEN {"segv", "run"} ELSE {"run"}}

Init ==
    /\ \E capacity \in Capacities :
          \/ arena = arena_create(HeapBase, capacity)
          \/ arena = arena_create_from_buffer(BufferBase, capacity)
    /\ scopes = <<>>
    /\ live = {}
    /\ fresh = {}
    /\ last = NoOp
    /\ ops = 0
    /\ arr = NoArr
    /\ ref = NoRef
    /\ dlast = NoDynOp
    \* the header is written through the buffer's start whatever the
    \* capacity: with capacity < sizeof(arena_t) the write runs past the end
    /\ halt \in (IF arena.capacity < SIZEOF_ARENA_T THEN {"run", "segv"}
                 ELSE {"run"})

\* the arena exists and the bound on the run is not used up
Running == halt = "run" /\ ops < MaxOps /\ arena.memory # NULL

\* sizes a caller may ask for: fixed ones and the two at the capacity boundary
PushSizes ==
    Sizes \cup {Wrap(arena.capacity - arena.position),
                Wrap(arena.capacity - arena.position + 1)}

AfterPush(r, size) ==
    /\ arena' = r.arena
    /\ halt' = r.halt
    /\ IF r.halt = "run" /\ r.ret # NULL
       THEN /\ live' = live \cup {Block(arena, r, size)}
            /\ fresh' = fresh \cup {Block(arena, r, size)}
       ELSE UNCHANGED <<live, fresh>>
    /\ UNCHANGED scopes

PushAligned ==
    /\ Running
    /\ ops' = ops + 1
    /\ UNCHANGED dvars
    /\ \E size \in PushSizes, align \in Aligns :
          LET r == arena_push_aligned(arena, size, align)
          IN  /\ AfterPush(r, size)
              /\ last' = Rec("arena_push_aligned", size, align, NULL, 0, r.ret)

Push ==
    /\ Running
    /\ ops' = ops + 1
    /\ UNCHANGED dvars
    /\ \E size \in PushSizes :
          LET r == arena_push(arena, size)
          IN  /\ AfterPush(r, size)
              /\ last' = Rec("arena_push", size, SIZEOF_VOID_P, NULL, 0, r.ret)

\* _arena_alloc through arena_allocator(arena).alloc
AdapterAllocate ==
    /\ Running
    /\ ops' = ops + 1
    /\ UNCHANGED dvars
    /\ \E size \in PushSizes :
          LET r == arena_push(arena, size)
          IN  /\ AfterPush(r, size)
              /\ last' = Rec("allocate", size, SIZEOF_VOID_P, NULL, 0, r.ret)

\* the open scopes after the caller's block b became the blocks in now (the
\* one it was reallocated to, or none when it was given back): live is what
\* the caller still holds of the allocations made before the scope began
Held(b, now) ==
    [i \in 1..Len(scopes) |->
        IF b \in scopes[i].live
        THEN [scopes[i] EXCEPT !.live = (scopes[i].live \ {b}) \cup now]
        ELSE scopes[i]]

\* _arena_realloc through arena_allocator(arena).realloc, on a block the
\* caller holds
AdapterReallocate ==
    /\ Running
    /\ ops' = ops + 1
    /\ UNCHANGED dvars
    /\ \E b \in live, new_size \in PushSizes :
          LET ptr == Wrap(arena.memory + b.off)
              r == _arena_realloc(arena, ptr, b.size, new_size)
          IN  /\ arena' = r.arena
              /\ halt' = r.halt
              /\ IF r.halt = "run" /\ r.ret # NULL /\ b.size < new_size
                 THEN /\ live' = (live \ {b})
                                   \cup {Block(arena, r, new_size)}
                      /\ scopes' = Held(b, {Block(arena, r, new_size)})
                 ELSE UNCHANGED <<live, scopes>>
              /\ fresh' = {}
              /\ last' = Rec("reallocate", new_size, SIZEOF_VOID_P, ptr,
                             b.size, r.ret)

\* _arena_free through arena_allocator(arena).free
AdapterDeallocate ==
    /\ Running
    /\ ops' = ops + 1
    /\ UNCHANGED dvars
    /\ \E b \in live :
          /\ live' = live \ {b}
          /\ fresh' = fresh \ {b}
          /\ scopes' = Held(b, {})
          /\ last' = Rec("deallocate", b.size, 0,
                         Wrap(arena.memory + b.off), b.size, NULL)
          /\ UNCHANGED <<arena, halt>>

Reset ==
    /\ Running
    /\ ops' = ops + 1
    /\ UNCHANGED dvars
    /\ scopes = <<>>
    /\ arena' = arena_reset(arena)
    /\ live' = {}
    /\ fresh' = {}
    /\ last' = Rec("arena_reset", 0, 0, NULL, 0, NULL)
    /\ UNCHANGED <<scopes, halt>>

ScopeBegin ==
    /\ Running
    /\ ops' = ops + 1
    /\ UNCHANGED dvars
    /\ Len(scopes) < MaxScopes
    /\ scopes' = Append(scopes, [snap |-> arena_scope_begin(arena),
                                 at |-> Marks(arena), live |-> live])
    /\ last' = Rec("arena_scope_begin", 0, 0, NULL, 0, NULL)
    /\ UNCHANGED <<arena, live, fresh, halt>>

\* arena_scope_end on the innermost open scope
ScopeEnd ==
    /\ Running
    /\ ops' = ops + 1
    /\ UNCHANGED dvars
    /\ scopes # <<>>
    /\ LET scope == scopes[Len(scopes)]
       IN  /\ arena' = arena_scope_end(arena, scope.snap)
           /\ live' = scope.live
    /\ scopes' = SubSeq(scopes, 1, Len(scopes) - 1)
    /\ fresh' = {}
    /\ last' = [Rec("arena_scope_end", 0, 0, NULL, 0, NULL)
                   EXCEPT !.begin = scopes[Len(scopes)].at]
    /\ UNCHANGED halt

\* arena_destroy: the blocks and the open scopes go with the arena
ArenaDestroy ==
    /\ Running
    /\ ops' = ops + 1
    /\ UNCHANGED dvars
    /\ \E r \in arena_destroy(arena) :
          /\ arena' = r.arena
          /\ halt' = r.halt
          /\ last' = [Rec("arena_destroy", arena.capacity, 0, arena.memory,
                          0, NULL) EXCEPT !.call = r.call]
    /\ scopes' = <<>>
    /\ live' = {}
    /\ fresh' = {}

Next ==
    \/ PushAligned
    \/ Push
    \/ AdapterAllocate
    \/ AdapterReallocate
    \/ AdapterDeallocate
    \/ Reset
    \/ ScopeBegin
    \/ ScopeEnd
    \/ ArenaDestroy

Spec == Init /\ [][Next]_vars

\* ---------------------------------------------- the array and its arena
InitLens == {0, 3, 8, 9}
Values == {21, 22}
Counts == {0, 2, 9}
OtherSizes == {8}

\* items of a bulk insert
Items(n) == [i \in 1..n |-> 30 + i]

\* a new array after n pushes of 1, 2, .. n (n <= 8: no growth yet)
Filled(d, n) == [d EXCEPT !.length = n, !.data = [i \in 1..n |-> i]]

\* the array and its arena after pushes of 1, 2, .. n to a new array: the
\* first 8 fill the initial block, each later one is dyn_arr_push on it
RECURSIVE Pushed(_, _, _)
Pushed(d, a, n) ==
    IF n <= _DYN_ARR_INITIAL_SIZE THEN {Outcome(Filled(d, n), a, "run", <<>>)}
    ELSE UNION {dyn_arr_push(o.arr, o.arena, n) : o \in Pushed(d, a, n - 1)}

InitDyn ==
    /\ scopes = <<>>
    /\ live = {}
    /\ fresh = {}
    /\ last = NoOp
    /\ ops = 0
    /\ halt = "run"
    /\ dlast = NoDynOp
    /\ \E n \in InitLens :
          /\ ref = [on |-> TRUE, stack |-> [i \in 1..n |-> i], top |-> 0]
          /\ \/ \E o \in Pushed(dyn_arr_create("heap", ElementSize, HeapBase),
                                NoArena, n) :
                   /\ o.halt = "run"
                   /\ arena = o.arena
                   /\ arr = o.arr
             \/ LET a == arena_create(HeapBase, DynArenaCapacity)
                    r == arena_push(a, Wrap(SIZEOF_DYN_ARR_HEADER_T
                             + Wrap(ElementSize * _DYN_ARR_INITIAL_SIZE)))
                IN  \E o \in Pushed(dyn_arr_create("arena", ElementSize,
                                                   r.ret), r.arena, n) :
                       /\ o.halt = "run"
                       /\ arena = o.arena
                       /\ arr = o.arr

DynRunning == halt = "run" /\ ops < MaxDynOps /\ arr.alive

Indexes == {0, 1, arr.length, arr.length + 1}

\* the array, the arena and the run after outcome o of an operation
Apply(o) ==
    /\ arr' = o.arr
    /\ arena' = o.arena
    /\ halt' = o.halt
    /\ ops' = ops + 1
    /\ UNCHANGED avars

DynPush ==
    /\ DynRunning
    /\ \E value \in Values : \E o \in dyn_arr_push(arr, arena, value) :
          /\ Apply(o)
          /\ dlast' = DynRec("dyn_arr_push", 0, 1, Present(<<value>>), o.out)
          /\ ref' = IF o.halt = "run"
                    THEN [ref EXCEPT !.stack = Append(ref.stack, value)]
                    ELSE ref

DynPop ==
    /\ DynRunning
    /\ \E o \in dyn_arr_pop(arr, arena) :
          /\ Apply(o)
          /\ dlast' = DynRec("dyn_arr_pop", 0, 1, Absent, o.out)
          /\ ref' = IF o.halt = "run" /\ ref.on
                    THEN [ref EXCEPT
                             !.stack = SubSeq(ref.stack, 1, Len(ref.stack) - 1),
                             !.top = ref.stack[Len(ref.stack)]]
                    ELSE ref

\* an operation other than push and pop: the reference stack stops
Other(op, index, count, items, outcomes) ==
    /\ DynRunning
    /\ \E o \in outcomes :
          /\ Apply(o)
          /\ dlast' = DynRec(op, index, count, items, o.out)
          /\ ref' = NoRef

DynInsert ==
    \E index \in Indexes, value \in Values :
        Other("dyn_arr_insert", index, 1, Present(<<value>>),
              dyn_arr_insert(arr, arena, index, value))

DynRemove ==
    \E index \in Indexes :
        Other("dyn_arr_remove", index, 1, Absent,
              dyn_arr_remove(arr, arena, index))

\* counts whose sum with the length is past half the range of size_t, or
\* wraps around
HugeCounts == {SizeMod \div 2 + 1, SizeMod - 1}

\* items are given with the counts of Counts; the huge counts come with a
\* null items (a zero fill)
DynInsertArr ==
    \E index \in Indexes, count \in Counts \cup HugeCounts :
      \E items \in IF count \in HugeCounts THEN {Absent}
                   ELSE {Present(Items(count)), Absent} :
        /\ items.null => count = 2 \/ count \in HugeCounts
        /\ Other("dyn_arr_insert_arr", index, count, items,
                 dyn_arr_insert_arr(arr, arena, index, items, count))

\* counts of a bulk removal: those of a bulk insert and the largest size_t
RemoveCounts == Counts \cup {SizeMod - 1}

DynRemoveArr ==
    \E index \in Indexes, count \in RemoveCounts :
        Other("dyn_arr_remove_arr", index, count, Absent,
              dyn_arr_remove_arr(arr, arena, index, count))

DynInsertFast ==
    \E index \in Indexes, value \in Values :
        Other("dyn_arr_insert_fast", index, 1, Present(<<value>>),
              dyn_arr_insert_fast(arr, arena, index, value))

DynRemoveFast ==
    \E index \in Indexes :
        Other("dyn_arr_remove_fast", index, 1, Absent,
              dyn_arr_remove_fast(arr, arena, index))

DynPushArr ==
    \E count \in Counts :
        Other("dyn_arr_push_arr", dyn_arr_length(arr), count,
              Present(Items(count)),
              dyn_arr_push_arr(arr, arena, Present(Items(count)), count))

DynPopArr ==
    \E count \in Counts :
        Other("dyn_arr_pop_arr", 0, count, Absent,
              dyn_arr_pop_arr(arr, arena, count))

DynClear ==
    Other("dyn_arr_clear", 0, 0, Absent, dyn_arr_clear(arr, arena))

DynDestroy ==
    /\ DynRunning
    /\ \E o \in dyn_arr_destroy(arr, arena) :
          /\ Apply(o)
          /\ dlast' = [DynRec("dyn_arr_destroy", 0, 0, Absent, o.out)
                          EXCEPT !.free_size = DestroySize(arr)]
          /\ ref' = NoRef

\* another user of the arena that backs the array allocates from it; the
\* reference stack is for the array alone and stays
ArenaOther ==
    /\ DynRunning
    /\ arr.allocator = "arena"
    /\ \E size \in OtherSizes :
          /\ arena' = arena_push(arena, size).arena
          /\ arena'.position # arena.position
    /\ ops' = ops + 1
    /\ UNCHANGED <<avars, dvars, halt>>

NextDyn ==
    \/ DynPush
    \/ DynPop
    \/ DynInsert
    \/ DynRemove
    \/ DynInsertArr
    \/ DynRemoveArr
    \/ DynInsertFast
    \/ DynRemoveFast
    \/ DynPushArr
    \/ DynPopArr
    \/ DynClear
    \/ DynDestroy
    \/ ArenaOther

SpecDyn == InitDyn /\ [][NextDyn]_vars

\* ------------------------------------------- the arena of the nexus revision
\* nexus_arena_create, given the block the allocator returned: the arena is
\* returned by value and the whole block is free
nexus_arena_create(memory, capacity) ==
    [allocator |-> "heap", memory |-> memory, capacity |-> capacity,
     position |-> 0, last_position |-> 0]

nexus_arena_create_from_buffer(buffer, capacity) ==
    [allocator |-> "none", memory |-> buffer, capacity |-> capacity,
     position |-> 0, last_position |-> 0]

\* nexus_arena_push_aligned: current_ptr is taken from last_position
nexus_arena_push_aligned(a, size, align) ==
    LET current_ptr == Wrap(a.memory + a.last_position)
        aligned_ptr == _align_up(current_ptr, align)
        position == Wrap(aligned_ptr - a.memory)
    IN  IF ~_is_power_of_two(align)
        THEN [halt |-> "trap", arena |-> a, ret |-> NULL]
        ELSE IF Wrap(position + size) > a.capacity
        THEN [halt |-> "run", arena |-> a, ret |-> NULL]
        ELSE [halt |-> "run",
              arena |-> [a EXCEPT !.last_position = position,
                                  !.position = Wrap(position + size)],
              ret |-> Wrap(a.memory + position)]

nexus_arena_push(a, size) == nexus_arena_push_aligned(a, size, SIZEOF_VOID_P)

nexus_arena_reset(a) == [a EXCEPT !.position = 0, !.last_position = 0]

nexus_arena_temp_begin(a) ==
    [position |-> a.position, last_position |-> a.last_position]

nexus_arena_temp_end(a, temp) ==
    [a EXCEPT !.position = temp.position,
              !.last_position = temp.last_position]

InitNexus ==
    /\ \E capacity \in Capacities :
          \/ arena = nexus_arena_create(HeapBase, capacity)
          \/ arena = nexus_arena_create_from_buffer(BufferBase, capacity)
    /\ scopes = <<>>
    /\ live = {}
    /\ fresh = {}
    /\ last = NoOp
    /\ ops = 0
    /\ halt = "run"
    /\ arr = NoArr
    /\ ref = NoRef
    /\ dlast = NoDynOp

\* the block a successful push handed out, told from the blocks of the
\* pushes before it by the number of the call
NexusBlock(r, size) ==
    [off |-> r.arena.last_position, size |-> size, call |-> ops]

NexusAfterPush(r, size) ==
    /\ arena' = r.arena
    /\ halt' = r.halt
    /\ IF r.halt = "run" /\ r.ret # NULL
       THEN /\ live' = live \cup {NexusBlock(r, size)}
            /\ fresh' = fresh \cup {NexusBlock(r, size)}
       ELSE UNCHANGED <<live, fresh>>
    /\ UNCHANGED scopes

NexusPushAligned ==
    /\ Running
    /\ ops' = ops + 1
    /\ UNCHANGED dvars
    /\ \E size \in PushSizes, align \in Aligns :
          LET r == nexus_arena_push_aligned(arena, size, align)
          IN  /\ NexusAfterPush(r, size)
              /\ last' = Rec("nexus_arena_push_aligned", size, align, NULL, 0,
                             r.ret)

NexusPush ==
    /\ Running
    /\ ops' = ops + 1
    /\ UNCHANGED dvars
    /\ \E size \in PushSizes :
          LET r == nexus_arena_push(arena, size)
          IN  /\ NexusAfterPush(r, size)
              /\ last' = Rec("nexus_arena_push", size, SIZEOF_VOID_P, NULL, 0,
                             r.ret)

NexusReset ==
    /\ Running
    /\ ops' = ops + 1
    /\ UNCHANGED dvars
    /\ scopes = <<>>
    /\ arena' = nexus_arena_reset(arena)
    /\ live' = {}
    /\ fresh' = {}
    /\ last' = Rec("nexus_arena_reset", 0, 0, NULL, 0, NULL)
    /\ UNCHANGED <<scopes, halt>>

NexusTempBegin ==
    /\ Running
    /\ ops' = ops + 1
    /\ UNCHANGED dvars
    /\ Len(scopes) < MaxScopes
    /\ scopes' = Append(scopes, [snap |-> nexus_arena_temp_begin(arena),
                                 at |-> Marks(arena), live |-> live])
    /\ last' = Rec("nexus_arena_temp_begin", 0, 0, NULL, 0, NULL)
    /\ UNCHANGED <<arena, live, fresh, halt>>

\* nexus_arena_temp_end on the innermost open temp
NexusTempEnd ==
    /\ Running
    /\ ops' = ops + 1
    /\ UNCHANGED dvars
    /\ scopes # <<>>
    /\ LET temp == scopes[Len(scopes)]
       IN  /\ arena' = nexus_arena_temp_end(arena, temp.snap)
           /\ live' = temp.live
    /\ scopes' = SubSeq(scopes, 1, Len(scopes) - 1)
    /\ fresh' = {}
    /\ last' = [Rec("nexus_arena_temp_end", 0, 0, NULL, 0, NULL)
                   EXCEPT !.begin = scopes[Len(scopes)].at]
    /\ UNCHANGED halt

\* nexus_arena_destroy: NEXUS_FREE through the arena's allocator, as
\* arena_destroy
NexusDestroy ==
    /\ Running
    /\ ops' = ops + 1
    /\ UNCHANGED dvars
    /\ \E r \in arena_destroy(arena) :
          /\ arena' = r.arena
          /\ halt' = r.halt
          /\ last' = [Rec("nexus_arena_destroy", arena.capacity, 0,
                          arena.memory, 0, NULL) EXCEPT !.call = r.call]
    /\ scopes' = <<>>
    /\ live' = {}
    /\ fresh' = {}

NextNexus ==
    \/ NexusPushAligned
    \/ NexusPush
    \/ NexusReset
    \/ NexusTempBegin
    \/ NexusTempEnd
    \/ NexusDestroy

SpecNexus == InitNexus /\ [][NextNexus]_vars

\* ------------------------------- the dynamic array of the nexus revision
\* nexus_dyn_arr_create, given the block NEXUS_ALLOC returned
nexus_dyn_arr_create(allocator, element_size, header) ==
    [alive |-> TRUE, allocator |-> allocator, element_size |-> element_size,
     capacity |-> _DYN_ARR_INITIAL_SIZE, length |-> 0, data |-> <<>>,
     ptr |-> header,
     block_size |-> Wrap(SIZEOF_DYN_ARR_HEADER_T
                         + Wrap(element_size * _DYN_ARR_INITIAL_SIZE))]

\* _dyn_arr_ensure_capacity of nexus.c on a heap allocator: what
\* NEXUS_REALLOC returns is dropped and the array stays at the old address.
\* The block was grown in place, or it was moved and the old address is
\* freed memory: the writes that follow crash, or land in the freed block.
nexus_dyn_arr_ensure_capacity(d, a, length) ==
    IF d.capacity >= Wrap(d.length + length)
    THEN {Outcome(d, a, "run", <<>>)}
    ELSE IF LoopsForever(d.capacity, Wrap(d.length + length))
    THEN {Outcome(d, a, "hang", <<>>)}
    ELSE LET new_capacity == Doubled(d.capacity, Wrap(d.length + length))
         IN  {Outcome([d EXCEPT !.block_size =
                          Wrap(SIZEOF_DYN_ARR_HEADER_T
                               + Wrap(new_capacity * d.element_size))],
                      a, "run", <<>>),
              Outcome(d, a, "segv", <<>>),
              Outcome(d, a, "run", <<>>)}

nexus_dyn_arr_push(d, a, value) ==
    {IF o.halt # "run" THEN o
     ELSE Outcome([o.arr EXCEPT !.data = Append(o.arr.data, value),
                                !.length = Wrap(o.arr.length + 1)],
                  o.arena, "run", <<>>) :
     o \in nexus_dyn_arr_ensure_capacity(d, a, 1)}

\* nexus_dyn_arr_pop: the output is copied from slot length, one past the
\* last element, which nothing wrote (and which lies outside the block when
\* the block is full), and the length is incremented
nexus_dyn_arr_pop(d, a) ==
    IF ~(d.length > 0) THEN Trap(d, a)
    ELSE {Outcome([d EXCEPT !.data = Append(d.data, g),
                            !.length = Wrap(d.length + 1)],
                  a, "run", <<g>>) : g \in Garbage}
         \cup (IF SIZEOF_DYN_ARR_HEADER_T + (d.length + 1) * d.element_size
                     > d.block_size
                THEN {Outcome(d, a, "segv", <<>>)}
                ELSE {})

nexus_dyn_arr_insert_arr(d, a, index, items, arr_length) ==
    IF ~(index <= d.length) THEN Trap(d, a)
    ELSE {IF o.halt # "run" THEN o
          ELSE IF FillOverruns(o.arr, index, arr_length)
          THEN Outcome(o.arr, o.arena, "segv", <<>>)
          ELSE LET h == o.arr
                   gap == IF items.null THEN Zeros(arr_length) ELSE items.at
               IN  Outcome([h EXCEPT
                       !.data = SubSeq(h.data, 1, index) \o gap
                                \o SubSeq(h.data, index + 1, Len(h.data)),
                       !.length = Wrap(h.length + arr_length)],
                     o.arena, "run", <<>>) :
          o \in nexus_dyn_arr_ensure_capacity(d, a, arr_length)}

NexusInitLens == {0, 3, 8}

InitNexusDyn ==
    /\ scopes = <<>>
    /\ live = {}
    /\ fresh = {}
    /\ last = NoOp
    /\ ops = 0
    /\ halt = "run"
    /\ dlast = NoDynOp
    /\ ref = NoRef
    /\ arena = NoArena
    /\ \E n \in NexusInitLens :
          arr = Filled(nexus_dyn_arr_create("heap", ElementSize, HeapBase), n)

NexusDynRunning == halt = "run" /\ ops < MaxOps

NexusDynPush ==
    /\ NexusDynRunning
    /\ \E value \in Values : \E o \in nexus_dyn_arr_push(arr, arena, value) :
          /\ Apply(o)
          /\ dlast' = DynRec("nexus_dyn_arr_push", 0, 1, Present(<<value>>),
                             o.out)
    /\ UNCHANGED ref

NexusDynPop ==
    /\ NexusDynRunning
    /\ \E o \in nexus_dyn_arr_pop(arr, arena) :
          /\ Apply(o)
          /\ dlast' = DynRec("nexus_dyn_arr_pop", 0, 1, Absent, o.out)
    /\ UNCHANGED ref

NexusDynInsertArr ==
    /\ NexusDynRunning
    /\ \E index \in {0, arr.length}, count \in {2} \cup HugeCounts :
        LET items == IF count \in HugeCounts THEN Absent
                     ELSE Present(Items(count))
        IN  \E o \in nexus_dyn_arr_insert_arr(arr, arena, index, items,
                                              count) :
               /\ Apply(o)
               /\ dlast' = DynRec("nexus_dyn_arr_insert_arr", index, count,
                                  items, o.out)
    /\ UNCHANGED ref

NextNexusDyn ==
    \/ NexusDynPush
    \/ NexusDynPop
    \/ NexusDynInsertArr

SpecNexusDyn == InitNexusDyn /\ [][NextNexusDyn]_vars

\* ================================================================ claims
IsPowerOfTwo(n) == \E k \in 0..SizeBits : n = 2^k

\* byte ranges [off, off + size) of two blocks do not meet
Disjoint(b1, b2) ==
    \/ b1.off + b1.size <= b2.off
    \/ b2.off + b2.size <= b1.off

\* C1: after creation and after every sequence of arena operations,
\* 0 <= last_position <= position <= capacity.  (Violated by the code: the
\* creation with a capacity below sizeof(arena_t), and a push whose
\* position + size wraps around.)
C1_WatermarkOrder ==
    halt = "run" =>
        /\ 0 <= arena.last_position
        /\ arena.last_position <= arena.position
        /\ arena.position <= arena.capacity

\* C2: the blocks returned by successful pushes with no reset, scope end or
\* reallocate between them are pairwise disjoint, lie inside [0, capacity)
\* and do not overlap the arena_t header at the start of the buffer.
\* (Violated by the code: a push whose position + size wraps around.)
C2_BlocksDisjointInside ==
    arena.capacity >= SIZEOF_ARENA_T =>
    /\ \A b1 \in fresh : \A b2 \in fresh \ {b1} : Disjoint(b1, b2)
    /\ \A b \in fresh : /\ SIZEOF_ARENA_T <= b.off
                        /\ b.off + b.size <= arena.capacity

\* C3: after arena_scope_end, position and last_position equal the values
\* the arena had at the matching arena_scope_begin, whatever was pushed
\* (successfully or not) and whatever inner scopes ran in between.
C3_ScopeRestore ==
    last.op = "arena_scope_end" =>
        /\ arena.position = last.begin.position
        /\ arena.last_position = last.begin.last_position

\* C3 witness: an inner scope was ended after a push moved the watermarks,
\* while an outer scope is still open.
C3_Witness ==
    /\ last.op = "arena_scope_end"
    /\ Len(scopes) = 1
    /\ last.pre.position # last.begin.position
    /\ last.pre.last_position # last.begin.last_position
    /\ arena.position = last.begin.position

\* C4: for every size and every power-of-two align, the pointer
\* arena_push_aligned returns is a multiple of align and the position after
\* the call is >= the position before it plus size.  (Violated by the code:
\* a size whose position + size wraps around is accepted.)
C4_AlignedAndAdvanced ==
    (/\ arena.capacity >= SIZEOF_ARENA_T
     /\ last.op = "arena_push_aligned"
     /\ IsPowerOfTwo(last.align)
     /\ last.ret # NULL)
    => /\ last.ret % last.align = 0
       /\ arena.position >= last.pre.position + last.size

\* the two boundary sizes of C5, computed as the caller computes them
ExactFit == Wrap(arena.capacity - last.pre.position)
OneTooMany == Wrap(arena.capacity - last.pre.position + 1)

PushedAligned == Wrap(arena.memory + last.pre.position) % SIZEOF_VOID_P = 0

\* C5 as claimed: arena_push of capacity - position + 1 bytes fails, and
\* arena_push of exactly capacity - position bytes succeeds and leaves
\* position == capacity whatever the alignment of the position.
C5_Original ==
    last.op = "arena_push" =>
        /\ last.size = OneTooMany => last.ret = NULL
        /\ last.size = ExactFit =>
              last.ret # NULL /\ arena.position = arena.capacity

\* C5 amended: arena_push of capacity - position + 1 bytes fails; arena_push
\* of exactly capacity - position bytes succeeds and leaves
\* position == capacity when memory + position is a multiple of
\* sizeof(void*), and fails, leaving the watermarks alone, when it is not.
C5_CapacityBoundary ==
    last.op = "arena_push" =>
        /\ last.size = OneTooMany => last.ret = NULL
        /\ (last.size = ExactFit /\ PushedAligned) =>
              last.ret # NULL /\ arena.position = arena.capacity
        /\ (last.size = ExactFit /\ ~PushedAligned) =>
              last.ret = NULL /\ Marks(arena) = last.pre

\* C5 witness: an exact-fit arena_push of more than zero bytes succeeded.
C5_Witness ==
    /\ last.op = "arena_push"
    /\ last.size = ExactFit
    /\ last.size > 0
    /\ last.pre.position < arena.capacity
    /\ last.ret # NULL
    /\ arena.position = arena.capacity

\* C6: the adapter's reallocate, called with new_size > old_size on the
\* pointer memory + last_position when last_position + new_size fits the
\* capacity, grows in place: it returns the same pointer, leaves
\* last_position and ends with position = last_position + new_size.
\* (Violated by the code: the re-push realigns to sizeof(void*), so a last
\* allocation made by arena_push_aligned with a smaller align moves.)
C6_GrowInPlace ==
    (/\ last.op = "reallocate"
     /\ last.size > last.old_size
     /\ last.ptr = Wrap(arena.memory + last.pre.last_position)
     /\ last.pre.last_position + last.size <= arena.capacity)
    => /\ halt = "run"
       /\ last.ret = last.ptr
       /\ arena.last_position = last.pre.last_position
       /\ arena.position = arena.last_position + last.size

\* C7: while only dyn_arr_push and dyn_arr_pop are applied (other users of
\* the backing arena allocating in between), the array's length and contents
\* equal those of the reference stack and every pop outputs what the
\* reference pop gives, so a pop right after push(v) outputs v.  (Violated
\* by the code: _dyn_arr_ensure_capacity never stores the new capacity, so
\* every push beyond 8 elements reallocates from the 8-element size and
\* only the first 8 elements are sure to survive.)
C7_StackRefinement ==
    (halt = "run" /\ arr.alive /\ ref.on) =>
        /\ arr.length = Len(ref.stack)
        /\ arr.data = ref.stack
        /\ dlast.op = "dyn_arr_pop" => dlast.out = <<ref.top>>

\* C8: the header's length never exceeds the header's capacity.  (Violated
\* by the code: the capacity field stays 8 while the length grows.)
C8_LengthWithinCapacity ==
    arr.alive => arr.length <= arr.capacity

\* the smallest 8 * 2^k that is >= n
SmallestDoubling(n) ==
    CHOOSE c \in {_DYN_ARR_INITIAL_SIZE * 2^k : k \in 0..SizeBits} :
        /\ c >= n
        /\ \A c2 \in {_DYN_ARR_INITIAL_SIZE * 2^k : k \in 0..SizeBits} :
              c2 >= n => c <= c2

\* C9: a single in-bounds insertion into an array whose storage is full
\* does not fail (the allocator having room), and after it the recorded
\* capacity is the smallest 8 * 2^k >= the new length: 16 after the 9th
\* of 9 insertions into a new array.  (Violated by the code: the recorded
\* capacity stays 8.)
C9_GrowthDoubling ==
    (/\ dlast.op \in {"dyn_arr_push", "dyn_arr_insert", "dyn_arr_insert_fast"}
     /\ dlast.index <= dlast.pre.length
     /\ dlast.pre.length + 1 > dlast.pre.capacity)
    => /\ arr.allocator = "heap" => halt = "run"
       /\ halt = "run" =>
             /\ arr.length = dlast.pre.length + 1
             /\ arr.capacity = SmallestDoubling(arr.length)

\* C10: the size dyn_arr_destroy passes to the allocator's deallocate is
\* the size last used to allocate or reallocate the block.  (Violated by
\* the code: it always passes the size of the initial 8-element block.)
C10_DestroyFreesCurrentSize ==
    dlast.op = "dyn_arr_destroy" => dlast.free_size = dlast.pre.block_size

\* C11: for every array and every index i with 0 <= i <= length,
\* dyn_arr_insert(i, v) followed by dyn_arr_remove(i, out) gives out = v and
\* leaves the length and the whole element sequence as they were before the
\* pair.  (Violated by the code, by the fault of C9: on an array that has
\* grown past 8 elements the insert reallocates from the 8-element size,
\* and the elements beyond the 8th need not survive.)
C11_InsertRemoveRoundTrip ==
    (/\ dlast.op = "dyn_arr_remove"
     /\ dlast.prev.op = "dyn_arr_insert"
     /\ dlast.prev.index = dlast.index
     /\ dlast.index <= dlast.prev.pre.length)
    => /\ halt = "run"
       /\ dlast.out = dlast.prev.items.at
       /\ arr.length = dlast.prev.pre.length
       /\ arr.data = dlast.prev.pre.data

\* the elements dyn_arr_insert_arr is to put in the gap: the items, or
\* zeros when items is absent
Gap == IF dlast.items.null THEN Zeros(dlast.count) ELSE dlast.items.at

\* C12: for index <= length and any count (counts that force more than one
\* doubling included), dyn_arr_insert_arr(index, items, count) leaves the
\* array equal to old[0..index) ++ items ++ old[index..length), the gap
\* zero-filled when items is absent, and the length increased by count.
\* (Violated by the code, by the fault of C9: on an array that has grown
\* past 8 elements the reallocation is made from the 8-element size.)
C12_InsertArrSplices ==
    (/\ dlast.op = "dyn_arr_insert_arr"
     /\ dlast.index <= dlast.pre.length)
    => /\ arr.allocator = "heap" => halt = "run"
       /\ halt = "run" =>
             /\ arr.length = dlast.pre.length + dlast.count
             /\ arr.data = SubSeq(dlast.pre.data, 1, dlast.index) \o Gap
                           \o SubSeq(dlast.pre.data, dlast.index + 1,
                                     dlast.pre.length)

\* C13: for index < length, dyn_arr_remove_fast(index, out) writes the old
\* element at index to out, puts the old last element in slot index, leaves
\* every other slot below length - 1 as it was and decreases the length by
\* exactly one.
C13_RemoveFastSwaps ==
    (/\ dlast.op = "dyn_arr_remove_fast"
     /\ dlast.index < dlast.pre.length)
    => /\ halt = "run"
       /\ dlast.out = <<dlast.pre.data[dlast.index + 1]>>
       /\ arr.length = dlast.pre.length - 1
       /\ Len(arr.data) = arr.length
       /\ \A i \in 1..arr.length :
             arr.data[i] = IF i = dlast.index + 1
                           THEN dlast.pre.data[dlast.pre.length]
                           ELSE dlast.pre.data[i]

\* C13 witness: remove_fast(0) on the 4-element array [1, 21, 2, 3] gave
\* out = 1 and left [3, 21, 2].
C13_Witness ==
    /\ dlast.op = "dyn_arr_remove_fast"
    /\ dlast.index = 0
    /\ dlast.pre.data = <<1, 21, 2, 3>>
    /\ dlast.out = <<1>>
    /\ arr.data = <<3, 21, 2>>
    /\ halt = "run"

\* the multiset of the elements of a sequence: how often each occurs
BagOf(seq) ==
    [v \in {seq[i] : i \in 1..Len(seq)} |->
        Cardinality({i \in 1..Len(seq) : seq[i] = v})]

\* C14: dyn_arr_insert_fast and dyn_arr_remove_fast preserve the multiset
\* of elements and the length: for every index <= length,
\* insert_fast(index, v) gives the old multiset plus v and length + 1, the
\* old occupant of index moved to the end; remove_fast takes exactly the
\* element it outputs; and insert_fast(index, v) followed by
\* remove_fast(index, out) gives out = v with the multiset and length of
\* before the pair.  (Violated by the code, by the fault of C9: the
\* insert_fast into an array grown past 8 elements reallocates from the
\* 8-element size.)
C14_FastOpsKeepMultiset ==
    /\ (/\ dlast.op = "dyn_arr_insert_fast"
        /\ dlast.index <= dlast.pre.length)
       => /\ arr.allocator = "heap" => halt = "run"
          /\ halt = "run" =>
                /\ arr.length = dlast.pre.length + 1
                /\ BagOf(arr.data)
                      = BagOf(dlast.pre.data \o dlast.items.at)
                /\ dlast.index < dlast.pre.length =>
                      arr.data[arr.length] = dlast.pre.data[dlast.index + 1]
    /\ (/\ dlast.op = "dyn_arr_remove_fast"
        /\ dlast.index < dlast.pre.length)
       => BagOf(arr.data \o dlast.out) = BagOf(dlast.pre.data)
    /\ (/\ dlast.op = "dyn_arr_remove_fast"
        /\ dlast.prev.op = "dyn_arr_insert_fast"
        /\ dlast.prev.index = dlast.index
        /\ dlast.index <= dlast.prev.pre.length)
       => /\ halt = "run"
          /\ dlast.out = dlast.prev.items.at
          /\ arr.length = dlast.prev.pre.length
          /\ BagOf(arr.data) = BagOf(dlast.prev.pre.data)

\* the last call broke the contract of its operation
ContractViolated ==
    \/ /\ dlast.op \in {"dyn_arr_insert_arr", "dyn_arr_insert_fast"}
       /\ dlast.index > dlast.pre.length
    \/ /\ dlast.op = "dyn_arr_remove_arr"
       /\ \/ dlast.index >= dlast.pre.length
          \/ dlast.index + dlast.count > dlast.pre.length
    \/ /\ dlast.op = "dyn_arr_remove_fast"
       /\ dlast.index >= dlast.pre.length
    \/ /\ dlast.op = "dyn_arr_pop"
       /\ dlast.pre.length = 0

\* C15: contract violations on the array are fatal and never mutate it:
\* insert_arr / insert_fast with index > length, remove_arr with
\* index >= length or index + count > length as mathematical integers
\* (counts near the largest size_t included), remove_fast with
\* index >= length and pop on an empty array each reach the fatal assertion
\* with length and contents unchanged.  (Violated by the code: index + count
\* is computed in size_t, so a count that wraps it around passes both
\* assertions of dyn_arr_remove_arr.)
C15_ViolationsFatalNoMutation ==
    ContractViolated =>
        /\ halt = "trap"
        /\ arr.length = dlast.pre.length
        /\ arr.data = dlast.pre.data

\* C16: dyn_arr_push_arr and dyn_arr_pop_arr are insert_arr / remove_arr at
\* the end: for every count with 0 <= count <= length (count 0 and the
\* empty array included) dyn_arr_pop_arr completes without a fatal
\* assertion, copies the last count elements in order to out and reduces
\* the length by count; dyn_arr_push_arr appends the count items in order.
\* (Violated by the code: dyn_arr_pop_arr(0) calls dyn_arr_remove_arr with
\* index = length, which fails its assertion index < length.)
C16_BulkEndOps ==
    /\ (/\ dlast.op = "dyn_arr_pop_arr"
        /\ dlast.count <= dlast.pre.length)
       => /\ halt = "run"
          /\ dlast.out = SubSeq(dlast.pre.data,
                                dlast.pre.length - dlast.count + 1,
                                dlast.pre.length)
          /\ arr.length = dlast.pre.length - dlast.count
          /\ arr.data = SubSeq(dlast.pre.data, 1,
                               dlast.pre.length - dlast.count)
    /\ dlast.op = "dyn_arr_push_arr"
       => /\ arr.allocator = "heap" => halt = "run"
          /\ halt = "run" =>
                /\ arr.length = dlast.pre.length + dlast.count
                /\ arr.data = dlast.pre.data \o dlast.items.at

\* the capacity the arena was created with (arena_destroy passes it to
\* core_free as the size)
CreatedCapacity ==
    IF last.op = "arena_destroy" THEN last.size ELSE arena.capacity

\* C17: an arena made by arena_create_from_buffer holds no allocator and
\* no arena operation on it, arena_destroy included, calls an allocator:
\* its destruction is a no-op that leaves the run going.  (Violated by the
\* code: arena_destroy calls core_free through the zeroed allocator.)
C17_BufferArenaCallsNoAllocator ==
    (/\ last.allocator = "none"
     /\ CreatedCapacity >= SIZEOF_ARENA_T)
    =>
        /\ last.call = "none"
        /\ last.op = "arena_destroy" => halt = "run"

\* C18: arena_push_aligned called with an align that is not a power of two
\* (0 included) always reaches the fatal assertion and leaves position and
\* last_position unchanged; it returns neither a pointer nor a recoverable
\* null.  (Violated by the code: _is_power_of_two(0) is true, so align 0
\* passes the assertion.)
C18_BadAlignIsFatal ==
    (/\ arena.capacity >= SIZEOF_ARENA_T
     /\ last.op = "arena_push_aligned"
     /\ ~IsPowerOfTwo(last.align))
    => /\ halt = "trap"
       /\ Marks(arena) = last.pre

\* the offset of the first address at or after memory + position that is a
\* multiple of align, as a mathematical integer
AlignedOffset ==
    LET address == arena.memory + last.pre.position
    IN  ((address + last.align - 1) \div last.align) * last.align
            - arena.memory

\* C19: arena_push_aligned returns null, and moves nothing, whenever the
\* aligned offset plus size exceeds the capacity as mathematical integers,
\* for every size up to the largest size_t.  (Violated by the code:
\* position + size is computed in size_t and wraps around.)
C19_OversizeRefused ==
    (/\ arena.capacity >= SIZEOF_ARENA_T
     /\ last.op = "arena_push_aligned"
     /\ IsPowerOfTwo(last.align)
     /\ AlignedOffset + last.size > arena.capacity)
    => /\ last.ret = NULL
       /\ Marks(arena) = last.pre

\* C20: in the nexus revision nexus_arena_push_aligned places each new
\* block at the first align-aligned address at or after memory + position,
\* so the blocks of successful pushes with no reset or temp end between
\* them never overlap and the position never decreases across successful
\* pushes.  Stated for sizes within the capacity, which do not wrap.
\* (Violated by the code: the address is computed from last_position, the
\* start of the block pushed last.)
C20_NexusPushesFromPosition ==
    (/\ last.op \in {"nexus_arena_push_aligned", "nexus_arena_push"}
     /\ IsPowerOfTwo(last.align)
     /\ last.size <= arena.capacity
     /\ (\A b \in fresh : b.size <= arena.capacity)
     /\ last.ret # NULL)
    => /\ arena.last_position = AlignedOffset
       /\ arena.position >= last.pre.position
       /\ \A b1 \in fresh : \A b2 \in fresh \ {b1} : Disjoint(b1, b2)

\* C21: in the nexus revision nexus_dyn_arr_pop on a non-empty array
\* removes at the end: it copies the element at index length - 1 to the
\* output and decreases the length by exactly one, so a pop right after
\* nexus_dyn_arr_push(v) outputs v and restores the length of before the
\* push.  (Violated by the code: the pop reads slot length and increments
\* the length.)
C21_NexusPopRemovesLast ==
    /\ (/\ dlast.op = "nexus_dyn_arr_pop"
        /\ dlast.pre.length > 0)
       => /\ halt = "run"
          /\ dlast.out = <<dlast.pre.data[dlast.pre.length]>>
          /\ arr.length = dlast.pre.length - 1
    /\ (/\ dlast.op = "nexus_dyn_arr_pop"
        /\ dlast.prev.op = "nexus_dyn_arr_push")
       => /\ dlast.out = dlast.prev.items.at
          /\ arr.length = dlast.prev.pre.length

\* the offset of the first address at or after memory + start that is a
\* multiple of the align of the last call, as a mathematical integer
OffsetFrom(start) ==
    ((arena.memory + start + last.align - 1) \div last.align) * last.align
        - arena.memory

\* the last call asked for more room than the arena had: a push whose block
\* would end beyond the capacity, or a growing reallocate whose new block
\* (from last_position for the last allocation, from position for an older
\* one) would
NoRoom ==
    \/ /\ last.op \in {"arena_push", "arena_push_aligned", "allocate"}
       /\ OffsetFrom(last.pre.position) + last.size > arena.capacity
    \/ /\ last.op = "reallocate"
       /\ last.size > last.old_size
       /\ OffsetFrom(IF last.ptr = Wrap(arena.memory + last.pre.last_position)
                     THEN last.pre.last_position
                     ELSE last.pre.position) + last.size > arena.capacity

\* C22: an arena operation that cannot be satisfied for lack of room
\* (arena_push, arena_push_aligned, the adapter's allocate and reallocate,
\* on the last or on an older allocation) returns null without a fatal stop
\* and leaves position and last_position as they were.  Stated for sizes
\* within the capacity, which do not wrap.  (Violated by the code:
\* _arena_realloc rewinds position to last_position before the push and
\* copies old_size bytes to the null pointer the push returned.)
C22_NoRoomIsRecoverable ==
    (/\ arena.capacity >= SIZEOF_ARENA_T
     /\ IsPowerOfTwo(last.align)
     /\ last.size <= arena.capacity
     /\ NoRoom)
    => /\ halt = "run"
       /\ last.ret = NULL
       /\ Marks(arena) = last.pre

\* C23: after arena_scope_end every allocation that was live at the
\* matching arena_scope_begin, one grown through the adapter's reallocate
\* while the scope was open included, lies entirely below the restored
\* position, so that no later push returns memory overlapping it.  Stated
\* for blocks within the capacity and watermarks in order at the begin,
\* which leaves the wrap-around of C19 out.  (Violated by the
\* code: the scope end restores the position of the begin whatever was
\* reallocated since.)
C23_ScopeEndKeepsHeldBlocks ==
    (/\ arena.capacity >= SIZEOF_ARENA_T
     /\ last.op = "arena_scope_end"
     /\ last.begin.last_position <= last.begin.position)
    => \A b \in live :
          b.size <= arena.capacity => b.off + b.size <= arena.position

\* C24: the capacity-doubling loop of _dyn_arr_ensure_capacity terminates
\* for every reachable length and every requested extra count in
\* fixed-width arithmetic, and with room for length + extra elements:
\* neither length + extra nor the doubling wraps around.  (Violated by the
\* code: past half the range of size_t the doubling wraps to 0 and the
\* loop runs forever; a length + extra that wraps asks for no growth.)
C24_DoublingLoopTerminates ==
    (/\ dlast.op = "dyn_arr_insert_arr"
     /\ dlast.index <= dlast.pre.length)
    => /\ halt # "hang"
       /\ arr.allocator = "heap" => halt = "run"
       /\ halt = "run" =>
             arr.block_size >= SIZEOF_DYN_ARR_HEADER_T
                 + (dlast.pre.length + dlast.count) * arr.element_size

====
